---- MODULE Spec2Model ----
(***************************************************************************)
(* The /pi_callback ingestion pipeline of server.js: express.json body     *)
(* parsing, the verifySignature middleware, the async route handler with   *)
(* its Firestore merge-write, and the global error handler.                *)
(*                                                                         *)
(* JavaScript values are written as their JSON literals: the number 1 is   *)
(* "1", the string "2" is "\"2\"", the empty string is "\"\"".  A missing  *)
(* property or header reads as Undefined.  A request body on the wire is   *)
(* a sequence of JSON tokens; a parsed object is a sequence of <<key,      *)
(* value>> pairs in insertion order.                                       *)
(***************************************************************************)
EXTENDS Integers, Sequences, FiniteSets, TLC

VARIABLES
  secret,   \* process.env.PI_CALLBACK_SECRET
  db,       \* TRUE iff firebase-admin was initialised (db is not null)
  store,    \* the documents of the orders collection
  clock,    \* the server time of the store, one tick per applied write
  pending,  \* the handlers suspended at their await, with the state of the set() call
  last,     \* the run of a handler that has just ended, and what it observed
  nreq,     \* number of requests received
  applied,  \* history: the writes the store applied, in order
  responses \* responses[i]: how many responses request i has been sent

vars == <<secret, db, store, clock, pending, last, nreq, applied, responses>>

\* Number of requests the network delivers in one behaviour.
MaxReq == 2

\* Length of a hex-encoded SHA-256 digest.
DigestHexLen == 64

Undefined == "undefined"

-----------------------------------------------------------------------------
(* JavaScript value helpers *)

\* The JSON literals the requests are built from.
EmptyStr == "\"\""
Approved == "\"APPROVED\""
Unknown == "\"unknown\""

\* ToBoolean of a JS value: undefined, null, false, 0 and "" are falsy.
Truthy(v) == v \notin {Undefined, "null", "false", "0", EmptyStr}

\* a || b
JsOr(a, b) == IF Truthy(a) THEN a ELSE b

\* String(v): a string is itself (without the quotes of its literal), a
\* number is its decimal text.
JsString(v) ==
  CASE v = "1" -> "1"
    [] v = "0" -> "0"
    [] v = "\"1\"" -> "1"
    [] v = "\"2\"" -> "2"
    [] v = EmptyStr -> ""
    [] OTHER -> v

\* obj[k] for a parsed object (a sequence of <<key, value>> pairs).
Get(obj, k) ==
  IF \E i \in 1..Len(obj) : obj[i][1] = k
  THEN obj[CHOOSE i \in 1..Len(obj) : obj[i][1] = k][2]
  ELSE Undefined

Keys(obj) == {obj[i][1] : i \in 1..Len(obj)}

\* obj[k] = v: an existing key keeps its position, a new key is appended.
Put(obj, k, v) ==
  IF k \in Keys(obj)
  THEN [i \in 1..Len(obj) |-> IF obj[i][1] = k THEN <<k, v>> ELSE obj[i]]
  ELSE Append(obj, <<k, v>>)

-----------------------------------------------------------------------------
(* express.json and JSON.stringify *)

RECURSIVE StringifyMembers(_, _)
StringifyMembers(obj, i) ==
  IF i > Len(obj) THEN <<>>
  ELSE (IF i > 1 THEN <<",">> ELSE <<>>)
       \o <<obj[i][1], ":", obj[i][2]>>
       \o StringifyMembers(obj, i + 1)

\* JSON.stringify(obj): the compact encoding, members in insertion order.
Stringify(obj) == <<"{">> \o StringifyMembers(obj, 1) \o <<"}">>

ParseError == <<<<"SyntaxError", "SyntaxError">>>>

IsSpace(t) == t = " "
IsPunct(t) == t \in {"{", "}", ":", ","}

\* Members of an object from token i on, after the opening brace; acc is the
\* object read so far.  A repeated key overwrites the earlier value.
RECURSIVE ParseMembers(_, _, _)
ParseMembers(toks, i, acc) ==
  IF i + 3 > Len(toks) THEN ParseError
  ELSE IF IsPunct(toks[i]) \/ toks[i + 1] # ":" \/ IsPunct(toks[i + 2])
  THEN ParseError
  ELSE LET obj == Put(acc, toks[i], toks[i + 2]) IN
       IF toks[i + 3] = "}"
       THEN (IF i + 3 = Len(toks) THEN obj ELSE ParseError)
       ELSE IF toks[i + 3] = "," THEN ParseMembers(toks, i + 4, obj)
       ELSE ParseError

\* JSON.parse of a raw body: insignificant whitespace is dropped.
ParseJSON(raw) ==
  LET toks == SelectSeq(raw, LAMBDA t : ~IsSpace(t)) IN
  IF Len(toks) < 2 \/ toks[1] # "{" THEN ParseError
  ELSE IF Len(toks) = 2 THEN (IF toks[2] = "}" THEN <<>> ELSE ParseError)
  ELSE ParseMembers(toks, 2, <<>>)

\* req.body when express.json left it undefined.
UndefinedBody == <<<<Undefined, Undefined>>>>

\* What express.json leaves in req.body.  A request without a body is not
\* parsed: req.body is then undefined or {} depending on the express release.
ParsedBodies(raw) ==
  IF raw = <<>> THEN {UndefinedBody, <<>>} ELSE {ParseJSON(raw)}

-----------------------------------------------------------------------------
(* Signature header values and the HMAC *)

\* A header value is a string: its length and, when it is a hex digest, the
\* key and the message it was computed from.  Two values are the same string
\* iff the records are equal.
NoHeader == [len |-> -1, key |-> "", msg |-> <<>>]
EmptyHeader == [len |-> 0, key |-> "", msg |-> <<>>]

\* crypto.createHmac('sha256', key).update(msg).digest('hex')
HmacHex(key, msg) == [len |-> DigestHexLen, key |-> key, msg |-> msg]

HeaderTruthy(h) == h.len > 0

HeaderOr(a, b) == IF HeaderTruthy(a) THEN a ELSE b

\* crypto.timingSafeEqual(a, b): throws a RangeError on unequal lengths.
TimingSafeEqual(a, b) ==
  IF a.len # b.len THEN "throw" ELSE IF a = b THEN "true" ELSE "false"

\* Mutant: only the lengths are compared.
SignatureMismatch_LengthOnly(a, b) ==
  IF a.len # b.len THEN "true" ELSE "false"

\* Mutant: the length guard is dropped and timingSafeEqual is always called.
SignatureMismatch_NoLengthCheck(a, b) ==
  CASE TimingSafeEqual(a, b) = "throw" -> "throw"
    [] TimingSafeEqual(a, b) = "true" -> "false"
    [] OTHER -> "true"

\* a.length !== b.length || !crypto.timingSafeEqual(a, b)
SignatureMismatch(a, b) ==
  IF a.len # b.len THEN "true"
  ELSE CASE TimingSafeEqual(a, b) = "throw" -> "throw"
         [] TimingSafeEqual(a, b) = "true" -> "false"
         [] OTHER -> "true"

\* !secret: an unset or empty PI_CALLBACK_SECRET.
SecretSet(s) == s \notin {Undefined, ""}

\* Mutant: only x-signature is read.
SignatureHeader_XOnly(req) ==
  HeaderOr(req.xsig, EmptyHeader)

\* The value verifySignature reads: x-signature || x-pi-signature || ''.
SignatureHeader(req) ==
  HeaderOr(HeaderOr(req.xsig, req.xpisig), EmptyHeader)

\* The digest verifySignature compares against.
ComputedDigest(sec, req) ==
  HmacHex(sec, Stringify(IF req.body = UndefinedBody THEN <<>> ELSE req.body))

Proceed == [next |-> TRUE, status |-> 0, error |-> ""]
Reject(code, msg) == [next |-> FALSE, status |-> code, error |-> msg]

\* Mutant: the header is demanded even when no secret is configured.
VerifySignature_AlwaysChecks(sec, req, cryptoOk) ==
  IF ~HeaderTruthy(SignatureHeader(req))
  THEN Reject(400, "Missing signature header")
  ELSE IF ~cryptoOk THEN Reject(500, "Signature verification failed")
  ELSE LET m == SignatureMismatch(ComputedDigest(sec, req), SignatureHeader(req)) IN
       CASE m = "throw" -> Reject(500, "Signature verification failed")
         [] m = "true" -> Reject(401, "Invalid signature")
         [] OTHER -> Proceed

\* Mutant: a missing header is let through.
VerifySignature_MissingPasses(sec, req, cryptoOk) ==
  IF ~SecretSet(sec) \/ ~HeaderTruthy(SignatureHeader(req)) THEN Proceed
  ELSE IF ~cryptoOk THEN Reject(500, "Signature verification failed")
  ELSE LET m == SignatureMismatch(ComputedDigest(sec, req), SignatureHeader(req)) IN
       CASE m = "throw" -> Reject(500, "Signature verification failed")
         [] m = "true" -> Reject(401, "Invalid signature")
         [] OTHER -> Proceed

\* Mutant: a signature mismatch is answered 403.
VerifySignature_Forbidden(sec, req, cryptoOk) ==
  IF ~SecretSet(sec) THEN Proceed
  ELSE IF ~HeaderTruthy(SignatureHeader(req))
  THEN Reject(400, "Missing signature header")
  ELSE IF ~cryptoOk THEN Reject(500, "Signature verification failed")
  ELSE LET m == SignatureMismatch(ComputedDigest(sec, req), SignatureHeader(req)) IN
       CASE m = "throw" -> Reject(500, "Signature verification failed")
         [] m = "true" -> Reject(403, "Invalid signature")
         [] OTHER -> Proceed

\* Mutant: the catch block answers 401 like a mismatch.
VerifySignature_CatchIs401(sec, req, cryptoOk) ==
  IF ~SecretSet(sec) THEN Proceed
  ELSE IF ~HeaderTruthy(SignatureHeader(req))
  THEN Reject(400, "Missing signature header")
  ELSE IF ~cryptoOk THEN Reject(401, "Invalid signature")
  ELSE LET m == SignatureMismatch(ComputedDigest(sec, req), SignatureHeader(req)) IN
       CASE m = "throw" -> Reject(401, "Invalid signature")
         [] m = "true" -> Reject(401, "Invalid signature")
         [] OTHER -> Proceed

\* Mutant: the 401 is sent without return, and next() is called after it.
VerifySignature_RejectAndNext(sec, req, cryptoOk) ==
  IF ~SecretSet(sec) THEN Proceed
  ELSE IF ~HeaderTruthy(SignatureHeader(req))
  THEN Reject(400, "Missing signature header")
  ELSE IF ~cryptoOk THEN Reject(500, "Signature verification failed")
  ELSE LET m == SignatureMismatch(ComputedDigest(sec, req), SignatureHeader(req)) IN
       CASE m = "throw" -> Reject(500, "Signature verification failed")
         [] m = "true" -> [next |-> TRUE, status |-> 401, error |-> "Invalid signature"]
         [] OTHER -> Proceed

\* verifySignature(req, res, next); cryptoOk is FALSE when the HMAC
\* computation throws.
VerifySignature(sec, req, cryptoOk) ==
  IF ~SecretSet(sec) THEN Proceed
  ELSE IF ~HeaderTruthy(SignatureHeader(req))
  THEN Reject(400, "Missing signature header")
  ELSE IF ~cryptoOk THEN Reject(500, "Signature verification failed")
  ELSE LET m == SignatureMismatch(ComputedDigest(sec, req), SignatureHeader(req)) IN
       CASE m = "throw" -> Reject(500, "Signature verification failed")
         [] m = "true" -> Reject(401, "Invalid signature")
         [] OTHER -> Proceed

-----------------------------------------------------------------------------
(* The route handler and the orders collection *)

\* A parsed object as a Firestore map value.
AsMap(obj) == [k \in Keys(obj) |-> Get(obj, k)]

\* Mutant: payload.status is written without the default.
OrderData_NoDefault(payload, ts) ==
  [status |-> Get(payload, "status"),
   updatedAt |-> ts,
   raw |-> AsMap(payload)]

\* The document data of the set() call: status, updatedAt and raw.
OrderData(payload, ts) ==
  [status |-> JsOr(Get(payload, "status"), Unknown),
   updatedAt |-> ts,
   raw |-> AsMap(payload)]

\* A map value written under { merge: true }: the keys of the new value are
\* written, the other keys of the stored map stay.
MergeMap(old, new) ==
  [k \in DOMAIN old \cup DOMAIN new |-> IF k \in DOMAIN new THEN new[k] ELSE old[k]]

\* Mutant: set() without { merge: true }: the data replaces the document.
MergeFields_Replace(old, data) == data

\* The fields of a document after set(data, { merge: true }).
MergeFields(old, data) ==
  [k \in DOMAIN old \cup DOMAIN data |->
     IF k \notin DOMAIN data THEN old[k]
     ELSE IF k = "raw" /\ k \in DOMAIN old THEN MergeMap(old[k], data[k])
     ELSE data[k]]

DocsOf(st, id) == {d \in st : d.id = id}

\* Mutant: every write adds a document.
MergeSet_AlwaysAdd(st, id, data) ==
  st \cup {[id |-> id, fields |-> data]}

\* Mutant: the write replaces the whole collection by the written document.
MergeSet_DropOthers(st, id, data) ==
  {[id |-> id, fields |-> data]}

\* orders.doc(id).set(data, { merge: true }) applied to the collection.
MergeSet(st, id, data) ==
  IF DocsOf(st, id) = {}
  THEN st \cup {[id |-> id, fields |-> data]}
  ELSE (st \ DocsOf(st, id))
       \cup {[id |-> id, fields |-> MergeFields(d.fields, data)] : d \in DocsOf(st, id)}

\* Mutant: only the body is checked, not its payment_id.
InvalidPayload_BodyOnly(payload) ==
  payload = UndefinedBody

\* !payload || !payload.payment_id
InvalidPayload(payload) ==
  payload = UndefinedBody \/ ~Truthy(Get(payload, "payment_id"))

\* Mutant: the write is started but not awaited; the acknowledgement is sent
\* at once.
RouteHandler_AckFirst(payload, dbAvail) ==
  IF InvalidPayload(payload)
  THEN [status |-> 400, echo |-> Undefined, attempted |-> FALSE,
        persist |-> "none", error |-> "Invalid payload, missing payment_id"]
  ELSE [status |-> 200, echo |-> Get(payload, "payment_id"), attempted |-> dbAvail,
        persist |-> IF dbAvail THEN "started" ELSE "unavailable", error |-> ""]

\* The route handler up to its await: what it responds, or the write it
\* starts.  status 0 means no response yet.
\* persist is what the handler logs about the store step: "none" (not
\* reached), "started" (set() called, awaiting), "unavailable" (db is null),
\* "ok" (Firestore updated) or "failed" (Failed to update Firestore).
RouteHandler(payload, dbAvail) ==
  IF InvalidPayload(payload)
  THEN [status |-> 400, echo |-> Undefined, attempted |-> FALSE,
        persist |-> "none", error |-> "Invalid payload, missing payment_id"]
  ELSE IF dbAvail
  THEN [status |-> 0, echo |-> Undefined, attempted |-> TRUE,
        persist |-> "started", error |-> ""]
  ELSE [status |-> 200, echo |-> Get(payload, "payment_id"), attempted |-> FALSE,
        persist |-> "unavailable", error |-> ""]

\* Mutant: a rejected set() is not caught by the inner try and reaches the
\* outer catch.
AfterAwait_Rethrow(payload, phase) ==
  IF phase = "resolved"
  THEN [status |-> 200, echo |-> Get(payload, "payment_id"), attempted |-> TRUE,
        persist |-> "ok", error |-> ""]
  ELSE [status |-> 500, echo |-> Undefined, attempted |-> TRUE,
        persist |-> "failed", error |-> "Internal server error"]

\* The route handler after its await: the set() call resolved, or rejected
\* into the inner catch; either way the acknowledgement follows.
AfterAwait(payload, phase) ==
  [status |-> 200, echo |-> Get(payload, "payment_id"), attempted |-> TRUE,
   persist |-> IF phase = "resolved" THEN "ok" ELSE "failed", error |-> ""]

\* Outcomes of the HMAC computation of a request: it succeeds (TRUE) or
\* throws (FALSE); a request for which it is not reached has the one outcome.
HmacOutcomes(sec, req) ==
  IF req.body # ParseError /\ SecretSet(sec) /\ HeaderTruthy(SignatureHeader(req))
  THEN BOOLEAN
  ELSE {TRUE}

\* The global error handler.
ErrorHandler ==
  [status |-> 500, echo |-> Undefined, attempted |-> FALSE,
   persist |-> "none", error |-> "Internal server error"]

\* express.json, verifySignature and the route handler, run in that order
\* for one request up to the first await.
\* authed: verifySignature called next(); sent: the responses sent in the run.
Pipeline(sec, dbAvail, req, cryptoOk) ==
  IF req.body = ParseError THEN ErrorHandler @@ [authed |-> FALSE, sent |-> 1]
  ELSE LET v == VerifySignature(sec, req, cryptoOk)
           byVerify == IF v.status # 0 THEN 1 ELSE 0
       IN
       IF ~v.next
       THEN [status |-> v.status, echo |-> Undefined, attempted |-> FALSE,
             persist |-> "none", error |-> v.error, authed |-> FALSE,
             sent |-> byVerify]
       ELSE LET h == RouteHandler(req.body, dbAvail) IN
            h @@ [authed |-> TRUE,
                  sent |-> byVerify + (IF h.status # 0 THEN 1 ELSE 0)]

-----------------------------------------------------------------------------
(* Requests *)

\* The secret the payment network signs with.
NetworkSecret == "abc"

PaymentIds == {Undefined, EmptyStr, "1", "\"2\""}
Statuses == {Undefined, Approved, EmptyStr}

Member(k, v) == IF v = Undefined THEN <<>> ELSE <<<<k, v>>>>

Objects ==
  {Member("payment_id", p) \o Member("status", s) : p \in PaymentIds, s \in Statuses}

\* An encoding of obj with a space after every colon and comma.
RECURSIVE SpacedMembers(_, _)
SpacedMembers(obj, i) ==
  IF i > Len(obj) THEN <<>>
  ELSE (IF i > 1 THEN <<",", " ">> ELSE <<>>)
       \o <<obj[i][1], ":", " ", obj[i][2]>>
       \o SpacedMembers(obj, i + 1)

Spaced(obj) == <<"{">> \o SpacedMembers(obj, 1) \o <<"}">>

Truncated == <<"{", "payment_id", ":">>

\* Raw bodies: compact and spaced encodings, no body, and malformed JSON.
RawBodies ==
  {Stringify(o) : o \in Objects} \cup {Spaced(o) : o \in Objects}
    \cup {<<>>, Truncated}

\* Values a signature header can carry for a body: none, empty, the digest
\* of the raw bytes, the digest of the re-serialised body, a digest under
\* another key, and a string of another length.
HeaderValues(raw, body) ==
  {NoHeader, EmptyHeader,
   HmacHex(NetworkSecret, raw),
   HmacHex(NetworkSecret, Stringify(IF body = UndefinedBody THEN <<>> ELSE body)),
   HmacHex("forged", raw),
   [len |-> 8, key |-> "forged", msg |-> <<>>]}

NoRequest == [raw |-> <<>>, body |-> UndefinedBody, xsig |-> NoHeader, xpisig |-> NoHeader]

\* last: the most recent run of a request that the caller or the store can
\* observe.  kind "sync" is the run from arrival to the first await (req is
\* the request as received), kind "resumed" is the continuation after the
\* await, which holds only the payload.
NoExchange ==
  [id |-> 0, kind |-> "none", req |-> NoRequest, cryptoOk |-> TRUE,
   payload |-> UndefinedBody, authed |-> FALSE, attempted |-> FALSE,
   persist |-> "none", status |-> 0, echo |-> Undefined, error |-> ""]

-----------------------------------------------------------------------------
(* State machine *)

Init ==
  /\ secret \in {Undefined, "", NetworkSecret}
  /\ db \in BOOLEAN
  /\ store = {}
  /\ clock = 0
  /\ pending = {}
  /\ last = NoExchange
  /\ nreq = 0
  /\ applied = <<>>
  /\ responses = <<>>

\* A request arrives and runs through the middleware chain and the route
\* handler up to the handler's await.
Receive ==
  /\ nreq < MaxReq
  /\ last = NoExchange
  /\ \E raw \in RawBodies :
       \E body \in ParsedBodies(raw) :
         \E xs \in HeaderValues(raw, body), xp \in HeaderValues(raw, body) :
           LET req == [raw |-> raw, body |-> body, xsig |-> xs, xpisig |-> xp] IN
           \E cryptoOk \in HmacOutcomes(secret, req) :
           LET out == Pipeline(secret, db, req, cryptoOk)
           IN /\ nreq' = nreq + 1
              /\ last' = [id |-> nreq + 1, kind |-> "sync", req |-> req,
                          cryptoOk |-> cryptoOk, payload |-> body,
                          authed |-> out.authed, attempted |-> out.attempted,
                          persist |-> out.persist, status |-> out.status,
                          echo |-> out.echo, error |-> out.error]
              /\ pending' = IF out.attempted
                            THEN pending \cup {[id |-> nreq + 1, payload |-> body,
                                                phase |-> "issued"]}
                            ELSE pending
              /\ responses' = Append(responses, out.sent)
              /\ UNCHANGED <<secret, db, store, clock, applied>>

\* Firestore applies the merge-write of a pending set() and resolves it.
StoreApply ==
  \E e \in pending :
    /\ last = NoExchange
    /\ e.phase = "issued"
    /\ LET payload == e.payload
           id == JsString(Get(payload, "payment_id"))
       IN /\ store' = MergeSet(store, id, OrderData(payload, clock + 1))
          /\ applied' = Append(applied, [id |-> e.id, key |-> id, payload |-> payload])
    /\ clock' = clock + 1
    /\ pending' = (pending \ {e}) \cup {[e EXCEPT !.phase = "resolved"]}
    /\ UNCHANGED <<secret, db, last, nreq, responses>>

\* The set() call rejects: the write is not applied.
StoreFail ==
  \E e \in pending :
    /\ last = NoExchange
    /\ e.phase = "issued"
    /\ pending' = (pending \ {e}) \cup {[e EXCEPT !.phase = "rejected"]}
    /\ UNCHANGED <<secret, db, store, clock, last, nreq, applied, responses>>

\* The set() call never settles.
StoreHang ==
  \E e \in pending :
    /\ last = NoExchange
    /\ e.phase = "issued"
    /\ pending' = (pending \ {e}) \cup {[e EXCEPT !.phase = "hung"]}
    /\ UNCHANGED <<secret, db, store, clock, last, nreq, applied, responses>>

\* The handler resumes after its await (resolved or caught) and responds.
Resume ==
  \E e \in pending :
    /\ last = NoExchange
    /\ e.phase \in {"resolved", "rejected"}
    /\ pending' = pending \ {e}
    /\ LET out == AfterAwait(e.payload, e.phase)
       IN last' = [id |-> e.id, kind |-> "resumed", req |-> NoRequest,
                   cryptoOk |-> TRUE, payload |-> e.payload, authed |-> TRUE,
                   attempted |-> out.attempted, persist |-> out.persist,
                   status |-> out.status, echo |-> out.echo, error |-> out.error]
    /\ responses' = [responses EXCEPT ![e.id] = @ + 1]
    /\ UNCHANGED <<secret, db, store, clock, nreq, applied>>

\* The run of the handler ends: the response, if one was sent, is on the
\* wire and the event loop takes the next event.
Finish ==
  /\ last # NoExchange
  /\ last' = NoExchange
  /\ UNCHANGED <<secret, db, store, clock, pending, nreq, applied, responses>>

Next == Receive \/ StoreApply \/ StoreFail \/ StoreHang \/ Resume \/ Finish

Spec == Init /\ [][Next]_vars

\* The store settles every set() call it can, the event loop runs every
\* continuation and finishes every response; a call that hangs stays hung.
FairSpec ==
  /\ Spec
  /\ WF_vars(StoreApply \/ StoreFail \/ StoreHang)
  /\ WF_vars(Resume)
  /\ WF_vars(Finish)

-----------------------------------------------------------------------------
(* The legacy server: express.json(), no signature check, no store *)

\* The legacy route handler: `${payment.payment_id}` reads a property of
\* req.body, which throws a TypeError when req.body is undefined.
LegacyHandler(body) ==
  IF body = UndefinedBody
  THEN [status |-> 0, echo |-> Undefined, error |-> "TypeError"]
  ELSE [status |-> 200, echo |-> Get(body, "payment_id"), error |-> ""]

\* express.json() and the handler; an error goes to the default error
\* handler of express, which answers a body-parser error with its status 400
\* and any other error with 500.  ran: the route handler was called.
LegacyPipeline(req) ==
  IF req.body = ParseError
  THEN [status |-> 400, echo |-> Undefined, error |-> "SyntaxError", ran |-> FALSE]
  ELSE LET h == LegacyHandler(req.body) IN
       IF h.status = 0
       THEN [status |-> 500, echo |-> Undefined, error |-> h.error, ran |-> TRUE]
       ELSE h @@ [ran |-> TRUE]

LegacyInit ==
  /\ secret = Undefined
  /\ db = FALSE
  /\ store = {}
  /\ clock = 0
  /\ pending = {}
  /\ last = NoExchange
  /\ nreq = 0
  /\ applied = <<>>
  /\ responses = <<>>

\* A POST /pi_callback arrives at the legacy server.
LegacyReceive ==
  /\ nreq < MaxReq
  /\ last = NoExchange
  /\ \E raw \in RawBodies :
       \E body \in ParsedBodies(raw) :
         \E xs \in HeaderValues(raw, body), xp \in HeaderValues(raw, body) :
           LET req == [raw |-> raw, body |-> body, xsig |-> xs, xpisig |-> xp]
               out == LegacyPipeline(req)
           IN /\ nreq' = nreq + 1
              /\ last' = [id |-> nreq + 1, kind |-> "sync", req |-> req,
                          cryptoOk |-> TRUE, payload |-> body,
                          authed |-> out.ran, attempted |-> FALSE,
                          persist |-> "none", status |-> out.status,
                          echo |-> out.echo, error |-> out.error]
              /\ responses' = Append(responses, 1)
              /\ UNCHANGED <<secret, db, store, clock, pending, applied>>

LegacyNext == LegacyReceive \/ Finish

LegacySpec == LegacyInit /\ [][LegacyNext]_vars

-----------------------------------------------------------------------------
(* Vocabulary of the properties *)

Responded(x) == x.kind \in {"sync", "resumed"} /\ x.status # 0

\* x is a request that verifySignature saw (express.json parsed the body).
Parsed(x) == x.kind = "sync" /\ x.req.body # ParseError

HasField(payload, k) == payload # UndefinedBody /\ k \in Keys(payload)

PaymentId(x) == Get(x.payload, "payment_id")

\* The handler of x is waiting on its set() call.
Awaiting(x) ==
  x.status = 0 /\ x.persist = "started" /\ \E e \in pending : e.id = x.id

AppliedTo(k) == {i \in 1..Len(applied) : applied[i].key = k}

AppliedKeys == {applied[i].key : i \in 1..Len(applied)}

-----------------------------------------------------------------------------
(* Properties *)

\* C1 as stated: every response to a request that passed verification (or
\* ran with no secret) and has a payment_id is 200 carrying that payment_id.
C1_AckForAnyPaymentId ==
  (Responded(last) /\ last.authed /\ HasField(last.payload, "payment_id"))
    => (last.status = 200 /\ last.echo = PaymentId(last))

\* C1 amended: every response to a request that passed verification (or ran
\* with no secret) and has a truthy payment_id is 200 carrying that
\* payment_id, whether the write succeeded, the store is unavailable or the
\* write threw; such a request without a response is awaiting its write.
C1_AckWhateverStoreOutcome ==
  (last.kind \in {"sync", "resumed"} /\ last.authed /\ Truthy(PaymentId(last)))
    => \/ /\ last.status = 200
          /\ last.echo = PaymentId(last)
          /\ last.persist \in {"ok", "unavailable", "failed"}
       \/ Awaiting(last)

C1_Witness ==
  /\ last.status = 200
  /\ last.persist = "failed"
  /\ last.echo = "\"2\""

\* The request of x carries a non-empty signature that differs from the
\* digest the server computed.
C2_Mismatch(x) ==
  /\ Parsed(x)
  /\ SecretSet(secret)
  /\ HeaderTruthy(SignatureHeader(x.req))
  /\ x.cryptoOk
  /\ SignatureHeader(x.req) # ComputedDigest(secret, x.req)

\* C2: with a secret configured, a request whose non-empty signature header
\* differs from the computed HMAC is answered 401, no set() is called for it
\* and the store is the same after the request as before it.
C2_MismatchRejected ==
  [][(last' # last /\ C2_Mismatch(last'))
       => /\ last'.status = 401
          /\ ~last'.attempted
          /\ store' = store
          /\ pending' = pending]_vars

C2_Witness ==
  /\ C2_Mismatch(last)
  /\ last.status = 401
  /\ SignatureHeader(last.req).len = DigestHexLen
  /\ Truthy(PaymentId(last))
  /\ db

\* C3: a request that reaches validation with no body or no payment_id is
\* answered 400 and no set() is called for it; every stored record and every
\* pending write comes from a payload that had a payment_id.
C3_MissingIdRejected ==
  /\ (last.kind = "sync" /\ last.authed /\ ~HasField(last.payload, "payment_id"))
       => /\ last.status = 400
          /\ ~last.attempted
          /\ \A e \in pending : e.id # last.id
  /\ \A d \in store :
       \E i \in AppliedTo(d.id) : HasField(applied[i].payload, "payment_id")
  /\ \A e \in pending : HasField(e.payload, "payment_id")

C3_Witness ==
  /\ last.kind = "sync"
  /\ last.authed
  /\ last.payload # UndefinedBody
  /\ Keys(last.payload) = {"status"}
  /\ last.status = 400
  /\ db

\* C4: when every write applied for a document id so far delivered the same
\* notification, the store holds exactly one record for it, with the status
\* and raw that one delivery of the notification writes.
C4_Idempotent ==
  \A k \in AppliedKeys :
    LET ps == {applied[i].payload : i \in AppliedTo(k)} IN
    Cardinality(ps) = 1 =>
      \A p \in ps :
        /\ Cardinality(DocsOf(store, k)) = 1
        /\ \A d \in DocsOf(store, k) :
             /\ d.fields.status = OrderData(p, 0).status
             /\ d.fields.raw = OrderData(p, 0).raw

C4_Witness ==
  \E i, j \in 1..Len(applied) :
    /\ i < j
    /\ applied[i].key = applied[j].key
    /\ applied[i].payload = applied[j].payload
    /\ Cardinality(DocsOf(store, applied[i].key)) = 1

\* C5: when a record holds status "APPROVED" and the next write for the same
\* id comes from a later delivery without a status field, the record still has
\* status "APPROVED" and its raw holds the fields of the later delivery.
C5_MergePreserving ==
  \A i, j \in 1..Len(applied) :
    (/\ i < j
     /\ applied[i].id < applied[j].id
     /\ applied[i].key = applied[j].key
     /\ \A n \in AppliedTo(applied[i].key) : n <= i \/ n = j
     /\ Get(applied[i].payload, "status") = Approved
     /\ ~HasField(applied[j].payload, "status"))
      => \A d \in DocsOf(store, applied[j].key) :
           /\ d.fields.status = Approved
           /\ \A f \in Keys(applied[j].payload) :
                d.fields.raw[f] = Get(applied[j].payload, f)

\* C6: with a secret configured, a request whose decoded body has a
\* payment_id and whose signature header is the hex HMAC-SHA256 of the raw
\* body bytes is acknowledged with 200 and the payment_id.
C6_RawBodySignatureAccepted ==
  (/\ Parsed(last)
   /\ SecretSet(secret)
   /\ last.cryptoOk
   /\ Truthy(PaymentId(last))
   /\ SignatureHeader(last.req) = HmacHex(secret, last.req.raw))
    => \/ last.status = 200 /\ last.echo = PaymentId(last)
       \/ Awaiting(last)

\* C7 as stated: with no secret configured, a request with a payment_id gets
\* 200, a request without one gets 400, and none gets 401 or the
\* missing-signature rejection, whatever its signature headers.
C7_UnconfiguredAnyPaymentId ==
  (Parsed(last) /\ ~SecretSet(secret))
    => /\ last.authed
       /\ last.status # 401
       /\ last.error # "Missing signature header"
       /\ IF HasField(last.payload, "payment_id")
          THEN last.status = 200 \/ Awaiting(last)
          ELSE last.status = 400

\* C7 amended: with no secret configured, a request with a truthy payment_id
\* gets 200 (or is awaiting its write), any other request gets 400, and none
\* gets 401 or the missing-signature rejection, whatever its headers.
C7_UnconfiguredBypass ==
  /\ (Parsed(last) /\ ~SecretSet(secret))
       => /\ last.authed
          /\ last.status # 401
          /\ last.error # "Missing signature header"
          /\ IF Truthy(PaymentId(last))
             THEN last.status = 200 \/ Awaiting(last)
             ELSE last.status = 400
  /\ (last.kind = "resumed" /\ ~SecretSet(secret)) => last.status = 200

C7_Witness ==
  /\ Parsed(last)
  /\ ~SecretSet(secret)
  /\ last.req.xsig = HmacHex("forged", last.req.raw)
  /\ last.status = 200

\* The request of x has no signature header, or an empty one, while a
\* secret is configured.
C8_Missing(x) ==
  Parsed(x) /\ SecretSet(secret) /\ ~HeaderTruthy(SignatureHeader(x.req))

C9_StatusCodes ==
  Responded(last) => last.status \in {200, 400, 401, 500}

C9_Witness ==
  /\ Responded(last)
  /\ last.status = 500
  /\ last.error = "Signature verification failed"

\* C10: every request that passed authentication and validation and awaits
\* its store write is eventually acknowledged with 200.
C10_EventuallyAcknowledged ==
  \A i \in 1..MaxReq :
    (\E e \in pending : e.id = i) ~> (last.id = i /\ last.status = 200)

\* The orders of the writes in ws (indices of applied): the sequences that
\* hold each of them once.
Orders(ws) ==
  {o \in [1..Cardinality(ws) -> ws] : \A a, b \in 1..Cardinality(ws) : a # b => o[a] # o[b]}

\* The fields left by the writes of order o applied one after the other:
\* status and updatedAt of the last, each raw key from the last write that
\* carries it.
SerialFields(o) ==
  LET n == Len(o)
      carries(f) == {a \in 1..n : f \in Keys(applied[o[a]].payload)}
      latest(f) == CHOOSE a \in carries(f) : \A b \in carries(f) : b <= a
  IN [status |-> OrderData(applied[o[n]].payload, o[n]).status,
      updatedAt |-> o[n],
      raw |-> [f \in UNION {Keys(applied[o[a]].payload) : a \in 1..n} |->
                 Get(applied[o[latest(f)]].payload, f)]]

\* C11: each handler applies at most one write, as one store step; for every
\* document id the store holds exactly one record, whose contents are those
\* of the writes applied for it taken in some serial order.
C11_SerialisableUpserts ==
  /\ \A i, j \in 1..Len(applied) : applied[i].id = applied[j].id => i = j
  /\ \A k \in AppliedKeys :
       /\ Cardinality(DocsOf(store, k)) = 1
       /\ \A d \in DocsOf(store, k) :
            \E o \in Orders(AppliedTo(k)) : d.fields = SerialFields(o)

\* Two handlers for the same id were suspended together, both writes are
\* applied with different payloads, and neither handler has resumed.
C11_Witness ==
  /\ Len(applied) = 2
  /\ applied[1].key = applied[2].key
  /\ applied[1].payload # applied[2].payload
  /\ \A i \in {1, 2} : \E e \in pending : e.id = applied[i].id /\ e.phase = "resolved"
  /\ Cardinality(DocsOf(store, applied[1].key)) = 1

\* C12: after every applied write the stored raw equals exactly the payload
\* of that delivery: keys of an earlier raw that the payload lacks are gone.
C12_RawReplaced ==
  \A k \in AppliedKeys :
    LET n == CHOOSE i \in AppliedTo(k) : \A j \in AppliedTo(k) : j <= i IN
    \A d \in DocsOf(store, k) : d.fields.raw = AsMap(applied[n].payload)

\* The HMAC computation of the request of x was reached and threw.
C13_Threw(x) ==
  /\ Parsed(x)
  /\ SecretSet(secret)
  /\ HeaderTruthy(SignatureHeader(x.req))
  /\ ~x.cryptoOk

\* C13: with a secret configured, a request whose HMAC computation throws is
\* answered 500, the route handler is not run and no set() is called.
C13_VerificationError500 ==
  C13_Threw(last)
    => /\ last.status = 500
       /\ last.error = "Signature verification failed"
       /\ ~last.authed
       /\ ~last.attempted
       /\ last.persist = "none"
       /\ \A e \in pending : e.id # last.id

C13_Witness ==
  /\ C13_Threw(last)
  /\ last.status = 500
  /\ SignatureHeader(last.req) = ComputedDigest(secret, last.req)
  /\ Truthy(PaymentId(last))
  /\ db

\* The signature of the request of x is compared and its length differs
\* from the digest's.
C14_WrongLength(x) ==
  /\ Parsed(x)
  /\ SecretSet(secret)
  /\ HeaderTruthy(SignatureHeader(x.req))
  /\ x.cryptoOk
  /\ SignatureHeader(x.req).len # ComputedDigest(secret, x.req).len

\* C14: a signature of another length than the digest is answered 401 and
\* the comparison never throws: no compared signature ends in 500.
C14_WrongLengthIs401 ==
  /\ C14_WrongLength(last)
       => last.status = 401 /\ last.error = "Invalid signature"
  /\ (Parsed(last) /\ SecretSet(secret) /\ HeaderTruthy(SignatureHeader(last.req))
        /\ last.cryptoOk)
       => /\ SignatureMismatch(ComputedDigest(secret, last.req),
                               SignatureHeader(last.req)) # "throw"
          /\ last.status # 500

C14_Witness ==
  /\ C14_WrongLength(last)
  /\ last.status = 401
  /\ SignatureHeader(last.req).len < DigestHexLen

\* C15: a 200 is sent only to an authenticated, valid request, and only once
\* its write attempt has finished (applied or failed) or was skipped for lack
\* of a store; when the write succeeded, the record for the payment_id is in
\* the store at the moment of the 200.
C15_AckAfterPersist ==
  (Responded(last) /\ last.status = 200)
    => /\ last.authed
       /\ ~InvalidPayload(last.payload)
       /\ last.persist \in {"ok", "failed", "unavailable"}
       /\ \A e \in pending : e.id # last.id
       /\ last.persist = "unavailable" => (~db /\ ~last.attempted)
       /\ last.persist \in {"ok", "failed"} => (db /\ last.attempted)
       /\ last.persist = "ok"
            => /\ \E i \in 1..Len(applied) : applied[i].id = last.id
               /\ DocsOf(store, JsString(PaymentId(last))) # {}
       /\ last.persist = "failed"
            => \A i \in 1..Len(applied) : applied[i].id # last.id

C15_Witness ==
  /\ last.kind = "resumed"
  /\ last.status = 200
  /\ last.persist = "ok"
  /\ \E d \in store : d.id = JsString(PaymentId(last))

\* C16: a request whose handler is suspended at its await has no response
\* yet and every other request has exactly one; a request that verifySignature
\* (or the error handler) answered got 400, 401 or 500 and the route handler
\* did not run; the route handler answers 400, 200 or 500.
C16_ExactlyOneResponse ==
  /\ Len(responses) = nreq
  /\ \A i \in 1..nreq :
       responses[i] = IF \E e \in pending : e.id = i THEN 0 ELSE 1
  /\ (last.kind = "sync" /\ ~last.authed)
       => /\ last.status \in {400, 401, 500}
          /\ ~last.attempted
          /\ last.persist = "none"
  /\ (last.kind = "sync" /\ last.authed)
       => last.status \in {400, 200} \/ Awaiting(last)
  /\ last.kind = "resumed" => last.status \in {200, 500}

C16_Witness ==
  /\ nreq = 2
  /\ last.kind = "resumed"
  /\ last.id = 1
  /\ responses = <<1, 1>>

\* C17: with a secret configured, when x-signature is absent or empty the
\* request is authenticated iff x-pi-signature carries the computed digest;
\* when x-signature is non-empty the request is authenticated iff x-signature
\* carries it, whatever x-pi-signature holds; with neither the answer is 400.
C17_Compared(x) ==
  x.kind = "sync" /\ Parsed(x) /\ SecretSet(secret) /\ x.cryptoOk

C17_EitherHeader ==
  C17_Compared(last) =>
    /\ (~HeaderTruthy(last.req.xsig) /\ HeaderTruthy(last.req.xpisig))
         => /\ last.authed <=> last.req.xpisig = ComputedDigest(secret, last.req)
            /\ ~last.authed => last.status = 401
    /\ HeaderTruthy(last.req.xsig)
         => /\ last.authed <=> last.req.xsig = ComputedDigest(secret, last.req)
            /\ ~last.authed => last.status = 401
    /\ (~HeaderTruthy(last.req.xsig) /\ ~HeaderTruthy(last.req.xpisig))
         => ~last.authed /\ last.status = 400

C17_Witness ==
  /\ C17_Compared(last)
  /\ last.req.xsig = EmptyHeader
  /\ last.req.xpisig = ComputedDigest(secret, last.req)
  /\ last.authed
  /\ Truthy(PaymentId(last))

\* The latest write the store applied to key k.
C18_Latest(k) == CHOOSE i \in AppliedTo(k) : \A j \in AppliedTo(k) : j <= i

\* A verified notification with a payment_id and no status field is answered.
C18_AcceptedWithoutStatus ==
  (Responded(last) /\ last.authed /\ ~InvalidPayload(last.payload)
     /\ ~HasField(last.payload, "status"))
    => last.status = 200

\* C18 as stated: a notification without a status field is answered 200 and
\* its write stores the status "unknown"; a notification with a status field
\* stores exactly that status.
C18_StatusWrittenExactly ==
  /\ C18_AcceptedWithoutStatus
  /\ \A k \in AppliedKeys : \A d \in DocsOf(store, k) :
       LET p == applied[C18_Latest(k)].payload IN
       d.fields.status = IF HasField(p, "status") THEN Get(p, "status") ELSE Unknown

\* C18 amended: a notification without a status field is answered 200; its
\* write stores the status "unknown", and so does the write of a notification
\* whose status is falsy (the empty string); a truthy status is stored as is.
C18_StatusDefault ==
  /\ C18_AcceptedWithoutStatus
  /\ \A k \in AppliedKeys : \A d \in DocsOf(store, k) :
       LET p == applied[C18_Latest(k)].payload IN
       d.fields.status =
         IF Truthy(Get(p, "status")) THEN Get(p, "status") ELSE Unknown

C18_Witness ==
  /\ last.kind = "resumed"
  /\ last.status = 200
  /\ last.persist = "ok"
  /\ ~HasField(last.payload, "status")
  /\ \E i \in 1..Len(applied) :
       /\ applied[i].id = last.id
       /\ C18_Latest(applied[i].key) = i
       /\ \E d \in DocsOf(store, applied[i].key) : d.fields.status = Unknown

\* C19: a step that changes the collection applies the write of one request,
\* under the key String(payment_id) of its payload, and every document under
\* another key is the same before and after; a request answered 400, 401 or
\* 500 has no write applied or pending, and the step that answers it leaves
\* the collection unchanged.
C19_OtherRecordsUnchanged ==
  [][
      /\ (store' # store) =>
          /\ Len(applied') = Len(applied) + 1
          /\ LET w == applied'[Len(applied')]
                 k == JsString(Get(w.payload, "payment_id"))
             IN /\ w.key = k
                /\ Truthy(Get(w.payload, "payment_id"))
                /\ {d \in store' : d.id # k} = {d \in store : d.id # k}
                /\ Cardinality(DocsOf(store', k)) = 1
      /\ (last' # last /\ Responded(last') /\ last'.status \in {400, 401, 500}) =>
          /\ store' = store
          /\ applied' = applied
          /\ \A i \in 1..Len(applied) : applied[i].id # last'.id
          /\ \A e \in pending' : e.id # last'.id
    ]_vars

C19_Witness ==
  /\ Len(applied) = 2
  /\ applied[1].key # applied[2].key
  /\ Cardinality(store) = 2
  /\ \E d \in DocsOf(store, applied[1].key) :
       d.fields = OrderData(applied[1].payload, 1)
  /\ last.kind = "resumed"
  /\ last.id = applied[2].id
  /\ last.status = 200

\* C20: every POST that reaches the legacy route handler is answered 200,
\* whatever its body holds, a body without payment_id included.
C20_LegacyAlways200 ==
  (last.kind = "sync" /\ last.authed) => last.status = 200

====
